---- MODULE Spec2Model ----
(***************************************************************************)
(* A model of the transit routing-and-fare engine of src/main.py:          *)
(*   - load_network's graph construction (link),                           *)
(*   - dijkstra_path, one frontier pop per step,                           *)
(*   - the path analysis helpers (zones_crossed, infer_mode_for_path,      *)
(*     edge_info, segment_lines, transfer_stations, trip_required_zones),  *)
(*   - the transfer-window fare engine                                     *)
(*     (fare_for_zones, compute_fare_with_transfer_window),                *)
(*   - the trip-planning loop of main().                                   *)
(*                                                                         *)
(* Station identifiers are the integers 1..n; their order stands for the   *)
(* string order heapq uses to break ties between equal distances.          *)
(* Fares are integer cents (2.50 is 250).                                  *)
(* Python's None is the empty sequence <<>>, and an Optional value v that  *)
(* is present is <<v>>.                                                    *)
(***************************************************************************)
EXTENDS Integers, Sequences, FiniteSets, TLC

VARIABLES
    stations,        \* main: Dict[str, Station], here station id -> zone
    graph,           \* main: Dict[str, List[Edge]]
    zone_fares,      \* main: Dict[int, float], zone count -> cents
    bus_flat,        \* main: the configured bus flat fare (cents)
    window_minutes,  \* main: the transfer window length
    session,         \* main: Optional[FareSession], threaded from trip to trip
    trip,            \* what the last operation was given and what it produced
    dj,              \* the locals of a running dijkstra_path call
    running          \* main: the while True loop has not reached its break

vars == <<stations, graph, zone_fares, bus_flat, window_minutes, session, trip, dj, running>>

----------------------------------------------------------------------------
(* Bounds of the model *)

MaxZones == 2
MaxFare == 2
MaxWindow == 1
MaxTime == 2
NStations == 3
MaxEdges == 3
MaxMinutes == 3

----------------------------------------------------------------------------
(* Python values *)

None == <<>>
Some(v) == <<v>>
Get(opt) == opt[1]

MaxOf(S) == CHOOSE x \in S : \A y \in S : y <= x
MinOf(S) == CHOOSE x \in S : \A y \in S : x <= y
Larger(a, b) == IF a >= b THEN a ELSE b

\* d[k] = v on a dict
Put(d, k, v) == [x \in (DOMAIN d) \cup {k} |-> IF x = k THEN v ELSE d[x]]

RECURSIVE Reverse(_)
Reverse(s) == IF s = <<>> THEN <<>> ELSE Append(Reverse(Tail(s)), Head(s))

----------------------------------------------------------------------------
(* Network: load_network *)

Station(id, zone) == [id |-> id, zone |-> zone]

Edge(to_id, minutes, line, mode) ==
    [to_id |-> to_id, minutes |-> minutes, line |-> line, mode |-> mode]

\* graph[a].append(Edge(b, ...)); graph[b].append(Edge(a, ...))
link(g, a, b, minutes, line, mode) ==
    LET g1 == [g EXCEPT ![a] = Append(@, Edge(b, minutes, line, mode))] IN
    [g1 EXCEPT ![b] = Append(@, Edge(a, minutes, line, mode))]

\* for row in edge_rows: link(row["from"], row["to"], ...)
RECURSIVE load_edges(_, _)
load_edges(g, edge_rows) ==
    IF edge_rows = <<>> THEN g
    ELSE LET row == Head(edge_rows) IN
         load_edges(link(g, row.from, row.to, row.minutes, row.line, row.mode),
                    Tail(edge_rows))

\* if a not in stations or b not in stations: raise ValueError
edge_rows_accepted(station_ids, edge_rows) ==
    \A i \in 1..Len(edge_rows) :
        edge_rows[i].from \in station_ids /\ edge_rows[i].to \in station_ids

\* graph = {sid: [] for sid in stations}, then the rows linked in order
load_graph(station_ids, edge_rows) ==
    load_edges([sid \in station_ids |-> <<>>], edge_rows)

----------------------------------------------------------------------------
(* Routing: dijkstra_path *)

\* A pop that takes the greatest pair of the heap instead of the least.
heappop_largest(pq) ==
    CHOOSE p \in pq : \A q \in pq : q[1] < p[1] \/ (q[1] = p[1] /\ q[2] <= p[2])

\* The frontier pq holds (distance, station) pairs. A pair is pushed only when
\* it lowers dist[station], so no pair is ever in the heap twice and the heap
\* is the set of its pairs; heappop takes the least pair, by distance and then
\* by station identifier.
heappop(pq) ==
    CHOOSE p \in pq : \A q \in pq : p[1] < q[1] \/ (p[1] = q[1] /\ p[2] <= q[2])

\* A relaxation test that only ever improves stations already reached.
should_relax_known_only(dist, to_id, nd) ==
    to_id \in DOMAIN dist /\ nd < dist[to_id]

\* A relaxation test that keeps the first distance found for a station.
should_relax_first_only(dist, to_id, nd) ==
    to_id \notin DOMAIN dist

\* if e.to_id not in dist or nd < dist[e.to_id]
should_relax(dist, to_id, nd) ==
    to_id \notin DOMAIN dist \/ nd < dist[to_id]

\* for e in graph[cur]: the body of the loop, edge by edge in list order.
RECURSIVE relax_edges(_, _, _, _)
relax_edges(edges, cur, cur_dist, s) ==
    IF edges = <<>> THEN s
    ELSE LET e == Head(edges)
             nd == cur_dist + e.minutes IN
         relax_edges(Tail(edges), cur, cur_dist,
             IF should_relax(s.dist, e.to_id, nd)
             THEN [s EXCEPT !.dist = Put(@, e.to_id, nd),
                            !.prev = Put(@, e.to_id, Some(cur)),
                            !.pq = @ \cup {<<nd, e.to_id>>}]
             ELSE s)

\* The locals of dijkstra_path; result is None until the function returns a path.
Locals(pc, start_id, goal_id) ==
    [pc |-> pc, start_id |-> start_id, goal_id |-> goal_id,
     dist |-> <<>>, prev |-> <<>>, pq |-> {}, visited |-> {},
     path |-> <<>>, cur |-> None, result |-> None]

\* The entry of dijkstra_path: the unknown-station return, else the initial locals.
dijkstra_enter(g, start_id, goal_id) ==
    IF start_id \notin DOMAIN g \/ goal_id \notin DOMAIN g
    THEN Locals("done", start_id, goal_id)
    ELSE [Locals("loop", start_id, goal_id) EXCEPT
             !.dist = Put(<<>>, start_id, 0),
             !.prev = Put(<<>>, start_id, None),
             !.pq = {<<0, start_id>>}]

\* A loop body that looks at the least entry without taking it off the heap
\* when its station is already in visited.
loop_iteration_peek_stale(g, s) ==
    IF s.pq = {} THEN [s EXCEPT !.pc = "after"]
    ELSE LET top == heappop(s.pq)
             cur_dist == top[1]
             cur == top[2]
             popped == [s EXCEPT !.pq = @ \ {top}] IN
         IF cur \in s.visited THEN s
         ELSE LET settled == [popped EXCEPT !.visited = @ \cup {cur}] IN
              IF cur = s.goal_id THEN [settled EXCEPT !.pc = "after"]
              ELSE relax_edges(g[cur], cur, cur_dist, settled)

\* One test of `while pq` and, when it passes, one run of the loop body.
loop_iteration(g, s) ==
    IF s.pq = {} THEN [s EXCEPT !.pc = "after"]
    ELSE LET top == heappop(s.pq)
             cur_dist == top[1]
             cur == top[2]
             popped == [s EXCEPT !.pq = @ \ {top}] IN
         IF cur \in s.visited THEN popped
         ELSE LET settled == [popped EXCEPT !.visited = @ \cup {cur}] IN
              IF cur = s.goal_id THEN [settled EXCEPT !.pc = "after"]
              ELSE relax_edges(g[cur], cur, cur_dist, settled)

\* if goal_id not in dist: return None; else path = [], cur = goal_id
after_loop(s) ==
    IF s.goal_id \notin DOMAIN s.dist
    THEN [s EXCEPT !.pc = "done"]
    ELSE [s EXCEPT !.pc = "rebuild", !.path = <<>>, !.cur = Some(s.goal_id)]

\* prev.get(cur)
prev_get(prev, cur) == IF cur \in DOMAIN prev THEN prev[cur] ELSE None

\* A return that forgets to reverse the path.
finish_path_unreversed(s) ==
    [s EXCEPT !.pc = "done",
              !.result = Some([path |-> s.path, minutes |-> s.dist[s.goal_id]])]

\* path.reverse(); return path, dist[goal_id]
finish_path(s) ==
    [s EXCEPT !.pc = "done", !.path = Reverse(s.path),
              !.result = Some([path |-> Reverse(s.path), minutes |-> s.dist[s.goal_id]])]

\* One test of `while cur is not None` and, when it passes, one run of its body.
rebuild_iteration(s) ==
    IF s.cur = None THEN finish_path(s)
    ELSE [s EXCEPT !.path = Append(@, Get(s.cur)),
                   !.cur = prev_get(s.prev, Get(s.cur))]

dijkstra_step(g, s) ==
    CASE s.pc = "loop" -> loop_iteration(g, s)
      [] s.pc = "after" -> after_loop(s)
      [] s.pc = "rebuild" -> rebuild_iteration(s)

RECURSIVE dijkstra_run(_, _)
dijkstra_run(g, s) ==
    IF s.pc = "done" THEN s ELSE dijkstra_run(g, dijkstra_step(g, s))

\* dijkstra_path(graph, start_id, goal_id): None, or <<[path, minutes]>>
dijkstra_path(g, start_id, goal_id) ==
    dijkstra_run(g, dijkstra_enter(g, start_id, goal_id)).result

----------------------------------------------------------------------------
(* Path analysis *)

\* The ValueError of edge_info.
NoEdgeError == [raised |-> "ValueError"]

\* for e in graph[a]: if e.to_id == b: return e; raise ValueError
edge_info(g, a, b) ==
    IF \E i \in 1..Len(g[a]) : g[a][i].to_id = b
    THEN g[a][MinOf({i \in 1..Len(g[a]) : g[a][i].to_id = b})]
    ELSE NoEdgeError

\* max(zones) - min(zones) + 1 over the zones of the path's stations
zones_crossed(st, path) ==
    LET zones == {st[path[i]].zone : i \in 1..Len(path)} IN
    MaxOf(zones) - MinOf(zones) + 1

\* The mode labels of the network and what str.upper() makes of each.
ModeLabels == {"train", "Train", "TRAIN", "bus", "Bus", "BUS", "seaBus"}
upper(label) ==
    CASE label \in {"train", "Train", "TRAIN"} -> "TRAIN"
      [] label \in {"bus", "Bus", "BUS"} -> "BUS"
      [] label = "seaBus" -> "SEABUS"

\* "TRAIN" for a path of fewer than two stations or with a segment whose mode
\* upper-cases to TRAIN, else "BUS".
infer_mode_for_path(g, path) ==
    IF Len(path) < 2 THEN "TRAIN"
    ELSE IF \E i \in 1..(Len(path) - 1) :
                upper(edge_info(g, path[i], path[i + 1]).mode) = "TRAIN"
         THEN "TRAIN"
         ELSE "BUS"

\* if mode == "BUS": return bus_flat_fare; return zone_fares.get(zones, zone_fares[max(zone_fares)])
compute_fare(zones, mode, zf, bus_flat_fare) ==
    IF upper(mode) = "BUS" THEN bus_flat_fare
    ELSE IF zones \in DOMAIN zf THEN zf[zones] ELSE zf[MaxOf(DOMAIN zf)]

\* One line label per consecutive pair of the path.
segment_lines(g, path) ==
    [i \in 1..(Len(path) - 1) |-> edge_info(g, path[i], path[i + 1]).line]

\* Consecutive duplicates collapsed.
RECURSIVE unique_lines_in_order(_)
unique_lines_in_order(lines) ==
    IF Len(lines) < 2 THEN lines
    ELSE LET out == unique_lines_in_order(SubSeq(lines, 1, Len(lines) - 1)) IN
         IF lines[Len(lines)] # out[Len(out)] THEN Append(out, lines[Len(lines)]) ELSE out

\* A transfer list that names the station at the far end of the segment whose
\* line changed instead of the station where the change happens.
RECURSIVE transfers_upto_segment_end(_, _, _)
transfers_upto_segment_end(path, lines, n) ==
    IF n < 2 THEN <<>>
    ELSE LET before == transfers_upto_segment_end(path, lines, n - 1) IN
         IF lines[n] # lines[n - 1] THEN Append(before, path[n + 1]) ELSE before

\* for i in range(1, len(lines)): if lines[i] != lines[i - 1]: transfers.append(path[i])
\* (n counts the segments looked at; Python's index i is n - 1 here)
RECURSIVE transfers_upto(_, _, _)
transfers_upto(path, lines, n) ==
    IF n < 2 THEN <<>>
    ELSE LET before == transfers_upto(path, lines, n - 1) IN
         IF lines[n] # lines[n - 1] THEN Append(before, path[n]) ELSE before

transfer_stations(path, lines) == transfers_upto(path, lines, Len(lines))

\* if mode == "BUS": return 1; return zones_crossed
trip_required_zones(mode, zones) ==
    IF upper(mode) = "BUS" THEN 1 ELSE zones

----------------------------------------------------------------------------
(* Fare engine *)

FareSession(start_minute, paid_zones) ==
    [start_minute |-> start_minute, paid_zones |-> paid_zones]

\* A lookup whose fallback is the fare at the smallest key instead of the largest.
fare_for_zones_min_fallback(required_zones, zf) ==
    IF required_zones \in DOMAIN zf THEN zf[required_zones] ELSE zf[MinOf(DOMAIN zf)]

\* zone_fares.get(required_zones, zone_fares[max(zone_fares)])
fare_for_zones(required_zones, zf) ==
    IF required_zones \in DOMAIN zf THEN zf[required_zones] ELSE zf[MaxOf(DOMAIN zf)]

\* An expiry test that already expires the session at exactly the window length.
session_expired_at_window(s, trip_time_minute, w) ==
    s = None \/ (trip_time_minute - Get(s).start_minute) >= w

\* An expiry test on the distance between the two minutes, whichever is later.
session_expired_either_way(s, trip_time_minute, w) ==
    \/ s = None
    \/ (trip_time_minute - Get(s).start_minute) > w
    \/ (Get(s).start_minute - trip_time_minute) > w

\* session is None or (trip_time_minute - session.start_minute) > window_minutes
session_expired(s, trip_time_minute, w) ==
    s = None \/ (trip_time_minute - Get(s).start_minute) > w

\* A free ride that restarts the window at the time of the ride.
free_ride_restarting_window(s, trip_time_minute) ==
    [charge |-> 0, session |-> Some(FareSession(trip_time_minute, Get(s).paid_zones))]

\* return 0.0, session
free_ride(s, trip_time_minute) ==
    [charge |-> 0, session |-> s]

\* An upgrade that charges the bare difference, negative or not.
upgrade_unclamped(s, required_zones, trip_cost, already_paid_cost) ==
    [charge |-> trip_cost - already_paid_cost,
     session |-> Some(FareSession(Get(s).start_minute, required_zones))]

\* An upgrade that charges the whole fare of the higher level again.
upgrade_full_price(s, required_zones, trip_cost, already_paid_cost) ==
    [charge |-> trip_cost,
     session |-> Some(FareSession(Get(s).start_minute, required_zones))]

\* return max(0.0, trip_cost - already_paid_cost), FareSession(session.start_minute, required_zones)
upgrade(s, required_zones, trip_cost, already_paid_cost) ==
    [charge |-> Larger(0, trip_cost - already_paid_cost),
     session |-> Some(FareSession(Get(s).start_minute, required_zones))]

\* A new session that records the zone level capped at the table's largest key.
new_session_capped(trip_time_minute, required_zones, zf) ==
    [charge |-> fare_for_zones(required_zones, zf),
     session |-> Some(FareSession(trip_time_minute,
                                  IF required_zones \in DOMAIN zf THEN required_zones
                                  ELSE MaxOf(DOMAIN zf)))]

\* return trip_cost, FareSession(start_minute = trip_time_minute, paid_zones = required_zones)
new_session(trip_time_minute, required_zones, zf) ==
    [charge |-> fare_for_zones(required_zones, zf),
     session |-> Some(FareSession(trip_time_minute, required_zones))]

\* A fare engine whose upgrade restarts the window at the minute of the upgrade.
compute_fare_with_transfer_window_upgrade_restarts(s, trip_time_minute, required_zones, zf, w) ==
    LET trip_cost == fare_for_zones(required_zones, zf) IN
    IF session_expired(s, trip_time_minute, w)
    THEN new_session(trip_time_minute, required_zones, zf)
    ELSE LET already_paid_cost == fare_for_zones(Get(s).paid_zones, zf) IN
         IF required_zones <= Get(s).paid_zones
         THEN free_ride(s, trip_time_minute)
         ELSE [charge |-> Larger(0, trip_cost - already_paid_cost),
               session |-> Some(FareSession(trip_time_minute, required_zones))]

compute_fare_with_transfer_window(s, trip_time_minute, required_zones, zf, w) ==
    LET trip_cost == fare_for_zones(required_zones, zf) IN
    IF session_expired(s, trip_time_minute, w)
    THEN new_session(trip_time_minute, required_zones, zf)
    ELSE LET already_paid_cost == fare_for_zones(Get(s).paid_zones, zf) IN
         IF required_zones <= Get(s).paid_zones
         THEN free_ride(s, trip_time_minute)
         ELSE upgrade(s, required_zones, trip_cost, already_paid_cost)

----------------------------------------------------------------------------
(* Inputs of the fare engine *)

Zones == 1..MaxZones

\* The zone counts a trip may require: every key a table can have and one
\* zone count above them all.
RequiredZones == 1..(MaxZones + 1)
Times == 0..MaxTime
Windows == (0 - 1)..MaxWindow

\* Every non-empty fare table with keys in Zones and fares in 0..MaxFare.
FareTables ==
    UNION {[K -> 0..MaxFare] : K \in (SUBSET Zones) \ {{}}}

NoTrip == [kind |-> "none"]
NoCall == [pc |-> "idle"]

\* The fare engine on its own: an arbitrary configuration, no session, and
\* then any sequence of calls, each threaded the session the last one returned.
InitFare ==
    /\ stations = <<>>
    /\ graph = <<>>
    /\ zone_fares \in FareTables
    /\ bus_flat = 0
    /\ window_minutes \in Windows
    /\ session = None
    /\ trip = NoTrip
    /\ dj = NoCall
    /\ running = TRUE

\* One call of the fare engine. Beside the call and its result, trip keeps
\* the history of the session the call returned: the charges added up since
\* the session was opened, the largest required_zones of its trips, the minute
\* of its latest upgrade, and the minute of the latest upgrade of the session
\* the call was given.
FareCall ==
    \E t \in Times, required \in RequiredZones :
        LET r == compute_fare_with_transfer_window(session, t, required, zone_fares, window_minutes)
            opened == session_expired(session, t, window_minutes)
            upgraded == ~opened /\ required > Get(session).paid_zones IN
        /\ session' = r.session
        /\ trip' = [kind |-> "fare", time |-> t, required |-> required,
                    before |-> session, charge |-> r.charge,
                    charged_in_session |->
                        IF opened THEN r.charge ELSE trip.charged_in_session + r.charge,
                    required_in_session |->
                        IF opened THEN required ELSE Larger(trip.required_in_session, required),
                    upgraded_at |->
                        IF opened THEN None ELSE IF upgraded THEN Some(t) ELSE trip.upgraded_at,
                    before_upgraded_at |->
                        IF session = None THEN None ELSE trip.upgraded_at]
        /\ UNCHANGED <<stations, graph, zone_fares, bus_flat, window_minutes, dj, running>>

NextFare == FareCall

SpecFare == InitFare /\ [][NextFare]_vars

----------------------------------------------------------------------------
(* The shortest-path finder on its own *)

StationIds == 1..NStations

\* The identifiers a caller may ask about: every station and one unknown one.
QueryIds == 1..(NStations + 1)

\* Connection records between two known stations, minutes positive. link(a, b)
\* and link(b, a) build the same graph, so the records are taken with
\* from < to.
EdgeRows ==
    {r \in [from : StationIds, to : StationIds, minutes : 1..MaxMinutes,
            line : {"Expo"}, mode : {"train"}] : r.from < r.to}

\* The record lists are taken in the order of their station pairs. Records of
\* one pair keep every order: that order is the order of the parallel
\* connections in graph[a], which decides what is relaxed first and what
\* edge_info finds. Records of different pairs only interleave connections to
\* different stations in graph[a], which neither the relaxation of a station
\* (one update per target, a set of pushes) nor edge_info (the first
\* connection to one target) can tell apart.
PairOrdered(rows) ==
    \A i \in 1..(Len(rows) - 1) :
        \/ rows[i].from < rows[i + 1].from
        \/ rows[i].from = rows[i + 1].from /\ rows[i].to <= rows[i + 1].to

EdgeRowLists ==
    UNION {{rows \in [1..n -> EdgeRows] : PairOrdered(rows)} : n \in 0..MaxEdges}

\* Any network the loader builds from at most MaxEdges records, and then one
\* dijkstra_path call over it for any pair of identifiers, run one loop test
\* at a time.
InitRoute ==
    /\ stations = [sid \in StationIds |-> Station(sid, 1)]
    /\ graph \in {load_graph(StationIds, rows) : rows \in EdgeRowLists}
    /\ zone_fares = <<0>>
    /\ bus_flat = 0
    /\ window_minutes = 0
    /\ session = None
    /\ trip = NoTrip
    /\ dj = NoCall
    /\ running = TRUE

RouteFrame == UNCHANGED <<stations, graph, zone_fares, bus_flat, window_minutes, session, trip, running>>

\* dijkstra_path is called; unknown identifiers return None at once.
RouteCall ==
    /\ dj.pc = "idle"
    /\ \E start_id \in QueryIds, goal_id \in QueryIds :
           dj' = dijkstra_enter(graph, start_id, goal_id)
    /\ RouteFrame

\* `while pq` fails: the frontier is empty.
FrontierEmpty ==
    /\ dj.pc = "loop"
    /\ dj.pq = {}
    /\ dj' = loop_iteration(graph, dj)
    /\ RouteFrame

\* A popped station is already in visited: continue.
PopStale ==
    /\ dj.pc = "loop"
    /\ dj.pq # {}
    /\ heappop(dj.pq)[2] \in dj.visited
    /\ dj' = loop_iteration(graph, dj)
    /\ RouteFrame

\* The goal is popped and settled: break.
PopGoal ==
    /\ dj.pc = "loop"
    /\ dj.pq # {}
    /\ heappop(dj.pq)[2] \notin dj.visited
    /\ heappop(dj.pq)[2] = dj.goal_id
    /\ dj' = loop_iteration(graph, dj)
    /\ RouteFrame

\* Another station is popped and settled, and its connections are relaxed.
PopRelax ==
    /\ dj.pc = "loop"
    /\ dj.pq # {}
    /\ heappop(dj.pq)[2] \notin dj.visited
    /\ heappop(dj.pq)[2] # dj.goal_id
    /\ dj' = loop_iteration(graph, dj)
    /\ RouteFrame

\* goal_id not in dist: return None.
ReturnNoRoute ==
    /\ dj.pc = "after"
    /\ dj.goal_id \notin DOMAIN dj.dist
    /\ dj' = after_loop(dj)
    /\ RouteFrame

\* The path reconstruction starts from the goal.
BeginRebuild ==
    /\ dj.pc = "after"
    /\ dj.goal_id \in DOMAIN dj.dist
    /\ dj' = after_loop(dj)
    /\ RouteFrame

\* One station is appended and cur moves to its predecessor.
RebuildStep ==
    /\ dj.pc = "rebuild"
    /\ dj.cur # None
    /\ dj' = rebuild_iteration(dj)
    /\ RouteFrame

\* cur is None: the path is reversed and returned with dist[goal_id].
ReturnPath ==
    /\ dj.pc = "rebuild"
    /\ dj.cur = None
    /\ dj' = rebuild_iteration(dj)
    /\ RouteFrame

NextRoute ==
    \/ RouteCall
    \/ FrontierEmpty
    \/ PopStale
    \/ PopGoal
    \/ PopRelax
    \/ ReturnNoRoute
    \/ BeginRebuild
    \/ RebuildStep
    \/ ReturnPath

SpecRoute == InitRoute /\ [][NextRoute]_vars

\* The same with the call made and every started call run on: the program is
\* one thread that executes its next statement whenever there is one.
SpecRouteFair == SpecRoute /\ WF_vars(NextRoute)

----------------------------------------------------------------------------
(* The trip-planning loop: main *)

\* hours * 60 + minutes, for 0 <= hours <= 23 and 0 <= minutes <= 59
parse_hhmm_to_minute(hours, minutes) == hours * 60 + minutes

\* input(...).strip().lower() of the answers a rider may give
AgainAnswers == {"y", " Y ", "n", ""}
strip_lower(answer) ==
    CASE answer \in {"y", " Y "} -> "y"
      [] answer = "n" -> "n"
      [] answer = "" -> ""

\* A zero-length trip that is priced by the fare engine at zero zones.
zero_length_trip_priced(s, start, goal, trip_time) ==
    LET r == compute_fare_with_transfer_window(s, trip_time, 0, zone_fares, window_minutes) IN
    [kind |-> "zero", start |-> start, goal |-> goal, time |-> trip_time,
     before |-> s, routed |-> FALSE, charge |-> r.charge, after |-> r.session]

\* if start == goal: print("Fare: $0.00")
zero_length_trip(s, start, goal, trip_time) ==
    [kind |-> "zero", start |-> start, goal |-> goal, time |-> trip_time,
     before |-> s, routed |-> FALSE, charge |-> 0, after |-> s]

\* if not result: print("No route found.")
no_route_trip(s, start, goal, trip_time) ==
    [kind |-> "noroute", start |-> start, goal |-> goal, time |-> trip_time,
     before |-> s, routed |-> TRUE, charge |-> 0, after |-> s]

\* The else branch: the path is analysed and compute_fare_with_transfer_window
\* prices the trip against the session.
routed_trip(s, start, goal, trip_time, result) ==
    LET path == result.path
        lines_each_segment == segment_lines(graph, path)
        z == zones_crossed(stations, path)
        mode == infer_mode_for_path(graph, path)
        required == trip_required_zones(mode, z)
        r == compute_fare_with_transfer_window(s, trip_time, required, zone_fares, window_minutes) IN
    [kind |-> "routed", start |-> start, goal |-> goal, time |-> trip_time,
     before |-> s, routed |-> TRUE, charge |-> r.charge, after |-> r.session,
     path |-> path, minutes |-> result.minutes,
     lines_each_segment |-> lines_each_segment,
     lines_used |-> unique_lines_in_order(lines_each_segment),
     transfers |-> transfer_stations(path, lines_each_segment),
     z |-> z, mode |-> mode, required |-> required]

\* The demonstration network: two bus connections inside and out of zone 1,
\* a train line across zones 1 to 3, and one station with no connection.
DemoStationRows ==
    <<Station(1, 1), Station(2, 1), Station(3, 2), Station(4, 3), Station(5, 1)>>

DemoEdgeRows ==
    <<[from |-> 1, to |-> 2, minutes |-> 5, line |-> "R5", mode |-> "Bus"],
      [from |-> 1, to |-> 3, minutes |-> 7, line |-> "R19", mode |-> "bus"],
      [from |-> 2, to |-> 3, minutes |-> 4, line |-> "Expo", mode |-> "train"],
      [from |-> 3, to |-> 4, minutes |-> 6, line |-> "Millennium", mode |-> "TRAIN"]>>

\* Fares_zone = {1: 2.50, 2: 3.75, 3: 4.90}, in cents
DemoZoneFares == (1 :> 250) @@ (2 :> 375) @@ (3 :> 490)

\* The bus flat fare of the fare configuration, in cents
DemoBusFlatFare == 200

\* fares.get("transfer_window_minutes", 60)
DefaultWindowMinutes == 60

\* The trip start times a rider enters, as (hours, minutes)
TripClockTimes == {<<9, 0>>, <<9, 20>>, <<10, 0>>, <<10, 1>>, <<10, 30>>}

\* main() after load_network: the configuration is loaded, there is no session.
Init ==
    /\ stations = [i \in 1..Len(DemoStationRows) |-> DemoStationRows[i]]
    /\ edge_rows_accepted(DOMAIN stations, DemoEdgeRows)
    /\ graph = load_graph(DOMAIN stations, DemoEdgeRows)
    /\ zone_fares = DemoZoneFares
    /\ bus_flat = DemoBusFlatFare
    /\ window_minutes = DefaultWindowMinutes
    /\ session = None
    /\ trip = NoTrip
    /\ dj = NoCall
    /\ running = TRUE

\* The end of a pass of the while True loop: the outcome t of the trip is
\* kept, the session is the one the trip left, and the rider's answer to
\* "Plan another trip?" decides whether the loop goes on.
EndOfIteration(t) ==
    /\ trip' = t
    /\ session' = t.after
    /\ \E again \in AgainAnswers : running' = (strip_lower(again) = "y")
    /\ UNCHANGED <<stations, graph, zone_fares, bus_flat, window_minutes, dj>>

\* The rider enters the same known station twice.
ZeroLengthTrip ==
    /\ running
    /\ \E start \in DOMAIN stations, clock \in TripClockTimes :
           EndOfIteration(zero_length_trip(session, start, start,
                                           parse_hhmm_to_minute(clock[1], clock[2])))

\* The rider enters two known stations with no route between them.
NoRouteTrip ==
    /\ running
    /\ \E start \in DOMAIN stations, goal \in DOMAIN stations :
           LET result == dijkstra_path(graph, start, goal) IN
           /\ start # goal
           /\ result = None
           /\ \E clock \in TripClockTimes :
                  EndOfIteration(no_route_trip(session, start, goal,
                                               parse_hhmm_to_minute(clock[1], clock[2])))

\* The rider enters two known stations joined by a route.
RoutedTrip ==
    /\ running
    /\ \E start \in DOMAIN stations, goal \in DOMAIN stations :
           LET result == dijkstra_path(graph, start, goal) IN
           /\ start # goal
           /\ result # None
           /\ \E clock \in TripClockTimes :
                  EndOfIteration(routed_trip(session, start, goal,
                                             parse_hhmm_to_minute(clock[1], clock[2]),
                                             Get(result)))

Next ==
    \/ ZeroLengthTrip
    \/ NoRouteTrip
    \/ RoutedTrip

Spec == Init /\ [][Next]_vars

----------------------------------------------------------------------------
(* The fare engine's transition rule, claim by claim *)

\* The fare-table price of a zone count: its own fare when tabulated, else
\* the fare at the largest tabulated zone count.
TablePrice(z) ==
    IF z \in DOMAIN zone_fares
    THEN zone_fares[z]
    ELSE zone_fares[CHOOSE k \in DOMAIN zone_fares : \A j \in DOMAIN zone_fares : j <= k]

\* The marginal cost of raising the paid level: max(0, fare(required) - fare(paid)).
UpgradePrice(paid, required) ==
    IF TablePrice(required) > TablePrice(paid)
    THEN TablePrice(required) - TablePrice(paid)
    ELSE 0

FareCalled == trip.kind = "fare"
HadSession == FareCalled /\ trip.before # None
PastWindow == HadSession /\ trip.time - Get(trip.before).start_minute > window_minutes
InWindow == HadSession /\ trip.time - Get(trip.before).start_minute <= window_minutes

\* C1: a call with no prior session, or with a session older than the window,
\* charges the fare-table price of required_zones (capped at the largest key)
\* and returns the session (start_minute = trip time, paid_zones = required_zones).
C1_NewSessionRule ==
    (FareCalled /\ (trip.before = None \/ PastWindow))
        => /\ trip.charge = TablePrice(trip.required)
           /\ session = <<[start_minute |-> trip.time, paid_zones |-> trip.required]>>

\* C1 witness: an expired session replaced by a trip whose zone count is not
\* tabulated, priced by the fallback.
C1_Witness ==
    /\ PastWindow
    /\ trip.required \notin DOMAIN zone_fares
    /\ trip.charge > 0
    /\ Get(session).start_minute = trip.time

\* C2: within the window, a trip needing no more than the paid zone level is
\* charged 0 and the session returned is the input session, unchanged.
C2_FreeRideKeepsSession ==
    (InWindow /\ trip.required <= Get(trip.before).paid_zones)
        => /\ trip.charge = 0
           /\ session = trip.before

\* C2 witness: a later, cheaper trip inside the window of a paid session.
C2_Witness ==
    /\ InWindow
    /\ trip.required < Get(trip.before).paid_zones
    /\ trip.time > Get(trip.before).start_minute
    /\ TablePrice(trip.required) > 0
    /\ trip.charge = 0

\* C3: within the window, a trip needing a higher zone level is charged
\* max(0, fare(required) - fare(paid)) and the session keeps its start_minute
\* and takes paid_zones = required_zones.
C3_UpgradeRule ==
    (InWindow /\ trip.required > Get(trip.before).paid_zones)
        => /\ trip.charge = UpgradePrice(Get(trip.before).paid_zones, trip.required)
           /\ session = <<[start_minute |-> Get(trip.before).start_minute,
                           paid_zones |-> trip.required]>>

\* C3 witness: an upgrade later in the window that costs a positive difference.
C3_Witness ==
    /\ InWindow
    /\ trip.required > Get(trip.before).paid_zones
    /\ trip.time > Get(trip.before).start_minute
    /\ trip.charge > 0
    /\ trip.charge < TablePrice(trip.required)

\* C4: a trip at exactly start_minute + window_minutes is inside the window
\* (free ride or upgrade, start_minute kept); a trip at start_minute +
\* window_minutes + 1 starts a new session at that minute at the full fare.
C4_WindowBoundary ==
    HadSession =>
        LET s == Get(trip.before).start_minute
            paid == Get(trip.before).paid_zones IN
        /\ trip.time = s + window_minutes =>
              /\ Get(session).start_minute = s
              /\ IF trip.required <= paid
                 THEN trip.charge = 0 /\ Get(session).paid_zones = paid
                 ELSE /\ Get(session).paid_zones = trip.required
                      /\ trip.charge = UpgradePrice(paid, trip.required)
        /\ trip.time = s + window_minutes + 1 =>
              /\ Get(session).start_minute = trip.time
              /\ Get(session).paid_zones = trip.required
              /\ trip.charge = TablePrice(trip.required)

\* C4 witness: one minute past a positive window, a trip that the old session
\* had already paid for is charged in full and restarts the session.
C4_Witness ==
    /\ HadSession
    /\ window_minutes > 0
    /\ trip.time = Get(trip.before).start_minute + window_minutes + 1
    /\ trip.required < Get(trip.before).paid_zones
    /\ trip.charge > 0
    /\ Get(session).start_minute = trip.time

----------------------------------------------------------------------------
(* The shortest-path finder, claim by claim *)

Returned == dj.pc = "done"
Found == Returned /\ dj.result # None
FoundPath == Get(dj.result).path
FoundMinutes == Get(dj.result).minutes

\* The (station, total minutes) ends of the walks that leave station a and
\* follow at most k connections of the network.
RECURSIVE WalkEnds(_, _)
WalkEnds(a, k) ==
    IF k = 0 THEN {<<a, 0>>}
    ELSE LET W == WalkEnds(a, k - 1) IN
         W \cup UNION {{<<graph[w[1]][i].to_id, w[2] + graph[w[1]][i].minutes>> :
                            i \in 1..Len(graph[w[1]])} : w \in W}

\* The stations some walk from a reaches.
ReachableFrom(a) == {w[1] : w \in WalkEnds(a, NStations)}

\* The minutes of the connections the direct-connection lookup returns for
\* the consecutive pairs of a path, summed.
RECURSIVE LookupMinutes(_)
LookupMinutes(path) ==
    IF Len(path) < 2 THEN 0
    ELSE edge_info(graph, path[1], path[2]).minutes + LookupMinutes(Tail(path))

\* C6: when dijkstra_path returns (path, total_minutes), no walk from start to
\* goal in the network takes strictly fewer minutes than total_minutes.
C6_NoShorterWalk ==
    Found =>
        \A w \in WalkEnds(dj.start_id, NStations + 1) :
            w[1] = dj.goal_id => FoundMinutes <= w[2]

\* C6 witness: a returned route through an intermediate station that beats a
\* direct connection between start and goal.
C6_Witness ==
    /\ Found
    /\ Len(FoundPath) >= 3
    /\ \E i \in 1..Len(graph[dj.start_id]) :
           /\ graph[dj.start_id][i].to_id = dj.goal_id
           /\ graph[dj.start_id][i].minutes > FoundMinutes

\* C7: total_minutes equals the sum, over the consecutive pairs of the returned
\* path, of the minutes of the connection edge_info returns for the pair.
C7_MinutesEqualLookupSum ==
    Found => FoundMinutes = LookupMinutes(FoundPath)

\* C8: dijkstra_path returns None exactly when start or goal is not a station
\* of the network or the goal cannot be reached from the start; otherwise it
\* returns a (path, minutes) result.
C8_NoneIffNoRoute ==
    Returned =>
        (dj.result = None <=>
            \/ dj.start_id \notin DOMAIN graph
            \/ dj.goal_id \notin DOMAIN graph
            \/ dj.goal_id \notin ReachableFrom(dj.start_id))

\* C8 witness: both stations exist, the start has connections that were
\* explored, and the call still returned None.
C8_Witness ==
    /\ Returned
    /\ dj.result = None
    /\ dj.start_id \in DOMAIN graph
    /\ dj.goal_id \in DOMAIN graph
    /\ Cardinality(dj.visited) >= 2

\* C9: a returned path begins with start, ends with goal, has at least two
\* stations when start and goal differ, and each consecutive pair is joined by
\* a direct connection, so edge_info does not raise on it.
C9_PathFollowsNetwork ==
    Found =>
        /\ Len(FoundPath) >= 1
        /\ FoundPath[1] = dj.start_id
        /\ FoundPath[Len(FoundPath)] = dj.goal_id
        /\ dj.start_id # dj.goal_id => Len(FoundPath) >= 2
        /\ \A i \in 1..(Len(FoundPath) - 1) :
               edge_info(graph, FoundPath[i], FoundPath[i + 1]) # NoEdgeError

\* C9 witness: a returned path of three stations between distinct start and goal.
C9_Witness ==
    /\ Found
    /\ dj.start_id # dj.goal_id
    /\ Len(FoundPath) >= 3

----------------------------------------------------------------------------
(* The trip-planning loop, claim by claim *)

OpensSession ==
    \/ trip.before = None
    \/ trip.time - Get(trip.before).start_minute > window_minutes

\* C5: a bus-like trip (required_zones = 1) that opens a new session is
\* charged the configured bus flat fare, and the session becomes
\* (start = trip time, paid = 1).
C5_BusTripChargedFlatFare ==
    (trip.kind = "routed" /\ trip.mode = "BUS" /\ OpensSession)
        => /\ trip.charge = bus_flat
           /\ session = <<[start_minute |-> trip.time, paid_zones |-> 1]>>

\* C10: an iteration with start == goal charges 0, calls neither the path
\* finder nor the fare engine, and leaves the session as it was.
C10_ZeroLengthTripKeepsSession ==
    [][trip'.kind = "zero" =>
          /\ trip'.start = trip'.goal
          /\ trip'.charge = 0
          /\ trip'.routed = FALSE
          /\ session' = session]_vars

\* C10 witness: a zero-length trip asked while a paid session is active and
\* within its window, the session still the one from before.
C10_Witness ==
    /\ trip.kind = "zero"
    /\ trip.charge = 0
    /\ session # None
    /\ session = trip.before
    /\ trip.time - Get(session).start_minute <= window_minutes
    /\ trip.time > Get(session).start_minute

----------------------------------------------------------------------------
(* The path analyzer on its own *)

LineLabels == {"Expo", "R5"}

\* Every way of upper-casing to TRAIN, to BUS and to neither that the
\* analyzer can tell apart.
SegmentModes == {"train", "TRAIN", "Bus", "seaBus"}

\* A corridor of n connections: stations 1..n+1 in a row, connection i joining
\* station i and station i + 1 with a line and a mode of its own.
Corridors ==
    UNION {[1..n -> [line : LineLabels, mode : SegmentModes]] : n \in 0..MaxEdges}

CorridorRows(segs) ==
    [i \in 1..Len(segs) |-> [from |-> i, to |-> i + 1, minutes |-> 1,
                             line |-> segs[i].line, mode |-> segs[i].mode]]

\* Any corridor the loader builds, and then one routed trip between any two of
\* its stations, analysed as main() does. A trip from a station to itself
\* is the path of one station, no segment.
InitPath ==
    \E segs \in Corridors :
        /\ stations = [sid \in 1..(Len(segs) + 1) |-> Station(sid, 1)]
        /\ graph = load_graph(1..(Len(segs) + 1), CorridorRows(segs))
        /\ zone_fares = <<0>>
        /\ bus_flat = 0
        /\ window_minutes = 0
        /\ session = None
        /\ trip = NoTrip
        /\ dj = NoCall
        /\ running = TRUE

AnalyzePath ==
    /\ trip = NoTrip
    /\ \E start \in DOMAIN graph, goal \in DOMAIN graph :
           LET t == routed_trip(session, start, goal, 0,
                                Get(dijkstra_path(graph, start, goal))) IN
           /\ trip' = t
           /\ session' = t.after
    /\ UNCHANGED <<stations, graph, zone_fares, bus_flat, window_minutes, dj, running>>

NextPath == AnalyzePath

SpecPath == InitPath /\ [][NextPath]_vars

----------------------------------------------------------------------------
(* The path analyzer, claim by claim *)

Analysed == trip.kind = "routed"

\* The mode labels of the path's segments, as the direct-connection lookup
\* gives them.
SegmentModeLabels ==
    [i \in 1..(Len(trip.path) - 1) |->
        edge_info(graph, trip.path[i], trip.path[i + 1]).mode]

\* The two categories of mode label, whatever the case of the letters.
TrainLike(label) == label \in {"train", "Train", "TRAIN"}
BusLike(label) == label \in {"bus", "Bus", "BUS"}

\* C11: a path is classified train-like whenever one of its segments has a
\* train-like mode label or it has no segment, and is classified bus-like only
\* if every one of its segments has a bus-like mode label.
C11_ModeInference ==
    Analysed =>
        /\ (\/ Len(trip.path) < 2
            \/ \E i \in DOMAIN SegmentModeLabels : TrainLike(SegmentModeLabels[i]))
              => trip.mode = "TRAIN"
        /\ trip.mode = "BUS" =>
              \A i \in DOMAIN SegmentModeLabels : BusLike(SegmentModeLabels[i])

\* The positions of the segments whose line differs from the line of the
\* segment before.
LineChanges ==
    {j \in 2..Len(trip.lines_each_segment) :
        trip.lines_each_segment[j] # trip.lines_each_segment[j - 1]}

\* C14: the transfer list is, in path order, exactly the stations where a
\* segment's line differs from the line of the segment before it, whatever the
\* modes of the segments; a path on one line has no transfer.
C14_TransfersAreLineChanges ==
    Analysed =>
        /\ Len(trip.transfers) = Cardinality(LineChanges)
        /\ \A j \in LineChanges :
               trip.transfers[Cardinality({k \in LineChanges : k <= j})] = trip.path[j]
        /\ (\A j \in 2..Len(trip.lines_each_segment) :
                trip.lines_each_segment[j] = trip.lines_each_segment[1])
              => trip.transfers = <<>>

\* C14 witness: a path of three segments that changes line twice, once
\* between two segments of the same mode, with both stations listed in order.
C14_Witness ==
    /\ Analysed
    /\ Len(trip.path) = 4
    /\ Cardinality(LineChanges) = 2
    /\ TrainLike(SegmentModeLabels[1])
    /\ TrainLike(SegmentModeLabels[2])
    /\ trip.transfers = <<trip.path[2], trip.path[3]>>

----------------------------------------------------------------------------
(* The fare lookup and the session over a sequence of calls, claim by claim *)

LargestKey == CHOOSE k \in DOMAIN zone_fares : \A j \in DOMAIN zone_fares : j <= k
SmallestKey == CHOOSE k \in DOMAIN zone_fares : \A j \in DOMAIN zone_fares : k <= j

\* C12: for a non-empty fare table, fare_for_zones returns a fare of the table
\* for every zone count: the zone count's own fare when it is tabulated, the
\* fare at the largest key when it is above the largest key. So every call of
\* compute_fare_with_transfer_window returns a charge and a session.
C12_FareLookupTotalAndCapped ==
    /\ \A z \in 0..(MaxZones + 1) :
           LET fare == fare_for_zones(z, zone_fares) IN
           /\ fare \in {zone_fares[k] : k \in DOMAIN zone_fares}
           /\ z \in DOMAIN zone_fares => fare = zone_fares[z]
           /\ z > LargestKey => fare = zone_fares[LargestKey]
    /\ FareCalled =>
           /\ trip.charge \in Int
           /\ session # None
           /\ trip.before = None => trip.charge = fare_for_zones(trip.required, zone_fares)

\* C12 witness: a first trip whose zone count lies above the largest key of a
\* table of several fares, charged the fare at the largest key.
C12_Witness ==
    /\ FareCalled
    /\ trip.before = None
    /\ trip.required > LargestKey
    /\ zone_fares[LargestKey] # zone_fares[SmallestKey]
    /\ trip.charge = zone_fares[LargestKey]

\* C15: an upgrade does not extend the window. start_minute changes only on
\* a call that was given a session past its window (or no session); and after
\* a session started at s was upgraded at t, a trip at u with
\* s + window < u <= t + window opens a new session at u at the full fare.
C15_UpgradeKeepsWindow ==
    HadSession =>
        LET s == Get(trip.before).start_minute IN
        /\ Get(session).start_minute # s => PastWindow
        /\ (/\ trip.before_upgraded_at # None
            /\ s + window_minutes < trip.time
            /\ trip.time <= Get(trip.before_upgraded_at) + window_minutes)
              => /\ session = <<[start_minute |-> trip.time, paid_zones |-> trip.required]>>
                 /\ trip.charge = TablePrice(trip.required)

\* C15 witness: a session upgraded after its start, then a trip past the
\* session's window but within a window of the upgrade, which the upgraded
\* level would have covered, charged in full and opening a new session.
C15_Witness ==
    /\ HadSession
    /\ trip.before_upgraded_at # None
    /\ Get(trip.before_upgraded_at) > Get(trip.before).start_minute
    /\ Get(trip.before).start_minute + window_minutes < trip.time
    /\ trip.time <= Get(trip.before_upgraded_at) + window_minutes
    /\ trip.required <= Get(trip.before).paid_zones
    /\ trip.charge > 0
    /\ Get(session).start_minute = trip.time

\* C18: for window_minutes >= 0 the session's start_minute never decreases
\* from one call to the next; a trip earlier than the session's start_minute
\* is a free ride or an upgrade of that session and does not replace it.
C18_StartNeverMovesBack ==
    (HadSession /\ window_minutes >= 0) =>
        LET s == Get(trip.before).start_minute
            paid == Get(trip.before).paid_zones IN
        /\ Get(session).start_minute >= s
        /\ trip.time < s =>
              /\ Get(session).start_minute = s
              /\ IF trip.required <= paid
                 THEN trip.charge = 0 /\ session = trip.before
                 ELSE /\ trip.charge = UpgradePrice(paid, trip.required)
                      /\ Get(session).paid_zones = trip.required

\* C18 witness: a trip earlier than the session's start by more than the
\* window, needing a higher level: an upgrade at a price, start_minute kept.
C18_Witness ==
    /\ HadSession
    /\ window_minutes >= 0
    /\ Get(trip.before).start_minute - trip.time > window_minutes
    /\ trip.required > Get(trip.before).paid_zones
    /\ trip.charge > 0
    /\ Get(session).start_minute = Get(trip.before).start_minute

\* The fares of the table's keys do not decrease as the key grows.
TabulatedFaresNonDecreasing ==
    \A j \in DOMAIN zone_fares, k \in DOMAIN zone_fares :
        j <= k => zone_fares[j] <= zone_fares[k]

\* The looked-up price does not decrease as the zone count grows, tabulated
\* or not.
LookedUpFaresNonDecreasing ==
    \A j \in RequiredZones, k \in RequiredZones :
        j <= k => TablePrice(j) <= TablePrice(k)

\* The charges since the session was opened add up to the price of its paid
\* level, and that level is the largest required_zones of the session's trips.
HighestLevelPaidOnce ==
    /\ trip.charged_in_session = TablePrice(Get(session).paid_zones)
    /\ Get(session).paid_zones = trip.required_in_session

\* paid_zones has not decreased if start_minute is what it was.
PaidZonesKeptWithStart ==
    (HadSession /\ Get(session).start_minute = Get(trip.before).start_minute)
        => Get(session).paid_zones >= Get(trip.before).paid_zones

C20_ChargeBounds ==
    (FareCalled /\ \A k \in DOMAIN zone_fares : zone_fares[k] >= 0)
        => /\ trip.charge >= 0
           /\ trip.charge <= TablePrice(trip.required)

\* C20 witness: an upgrade to a level the table prices below the level
\* already paid, charged 0.
C20_Witness ==
    /\ InWindow
    /\ trip.required > Get(trip.before).paid_zones
    /\ TablePrice(trip.required) < TablePrice(Get(trip.before).paid_zones)
    /\ trip.charge = 0

----------------------------------------------------------------------------
(* The shortest-path finder, further claims *)

DirectlyConnected(a, b) ==
    \E i \in 1..Len(graph[a]) : graph[a][i].to_id = b

\* The minutes dijkstra_path returns for a pair of stations with a route.
MinutesBetween(a, b) == Get(dijkstra_path(graph, a, b)).minutes

\* C13: for three stations pairwise joined by direct connections, the minutes
\* returned from the first to the third are at most the minutes returned from
\* the first to the second plus those from the second to the third.
C13_Triangle ==
    Found =>
        \A b \in StationIds :
            (/\ DirectlyConnected(dj.start_id, dj.goal_id)
             /\ DirectlyConnected(dj.start_id, b)
             /\ DirectlyConnected(b, dj.goal_id))
                => FoundMinutes <= MinutesBetween(dj.start_id, b) + MinutesBetween(b, dj.goal_id)

\* C13 witness: three pairwise connected stations where the route through the
\* second is faster than the direct connection, and the returned minutes meet
\* the bound exactly.
C13_Witness ==
    /\ Found
    /\ \E b \in StationIds :
           /\ DirectlyConnected(dj.start_id, dj.goal_id)
           /\ DirectlyConnected(dj.start_id, b)
           /\ DirectlyConnected(b, dj.goal_id)
           /\ FoundMinutes = MinutesBetween(dj.start_id, b) + MinutesBetween(b, dj.goal_id)
           /\ FoundMinutes < edge_info(graph, dj.start_id, dj.goal_id).minutes

\* The least number of minutes of a walk from a to b.
TrueMinutes(a, b) == MinOf({w[2] : w \in {v \in WalkEnds(a, NStations) : v[1] = b}})

InRun == dj.pc \in {"loop", "after", "rebuild"}

\* The entry the next pop takes: the least by distance, then by station.
NextPop ==
    CHOOSE p \in dj.pq : \A q \in dj.pq : p[1] < q[1] \/ (p[1] = q[1] /\ p[2] <= q[2])

\* C16: during a run a station enters visited at most once, and dist, prev
\* and the frontier gain nothing except in the step that adds the popped
\* station to visited; the pop of an entry for a station already in visited
\* removes that entry and changes nothing else; and a station is settled with
\* its distance equal to the least minutes of any walk from start.
C16_SettleOnce ==
    [][InRun =>
          /\ dj.visited \subseteq dj'.visited
          /\ (dj'.dist # dj.dist \/ dj'.prev # dj.prev \/ ~(dj'.pq \subseteq dj.pq))
                => /\ dj.pc = "loop"
                   /\ NextPop[2] \notin dj.visited
                   /\ dj'.visited = dj.visited \cup {NextPop[2]}
          /\ (dj.pc = "loop" /\ dj.pq # {}) =>
                IF NextPop[2] \in dj.visited
                THEN /\ dj'.dist = dj.dist
                     /\ dj'.prev = dj.prev
                     /\ dj'.visited = dj.visited
                     /\ dj'.pq = dj.pq \ {NextPop}
                ELSE /\ dj'.visited = dj.visited \cup {NextPop[2]}
                     /\ NextPop[1] = dj.dist[NextPop[2]]
                     /\ NextPop[1] = TrueMinutes(dj.start_id, NextPop[2])]_vars

\* C16 witness: the start has two parallel connections to a station, the
\* slower one first; both were pushed, the station was settled with the
\* faster one, the slower entry has since been popped and discarded, and the
\* run went on to find a goal further away.
C16_Witness ==
    /\ Found
    /\ dj.start_id # dj.goal_id
    /\ \E b \in dj.visited \ {dj.start_id, dj.goal_id} :
           LET first == MinOf({i \in 1..Len(graph[dj.start_id]) : graph[dj.start_id][i].to_id = b})
               slow == graph[dj.start_id][first].minutes IN
           /\ \E j \in 1..Len(graph[dj.start_id]) : graph[dj.start_id][j].to_id = b
           /\ dj.dist[b] < slow
           /\ <<slow, b>> \notin dj.pq
           /\ dj.dist[dj.goal_id] >= slow

\* C17: every dijkstra_path call finishes: the frontier loop ends with the
\* goal popped or the frontier empty, the reconstruction reaches the start,
\* and the function returns.
C17_Terminates == <>Returned

\* C17 witness: a call that returned after settling every station, the goal
\* last and the frontier empty by then, with a path rebuilt through all of
\* them.
C17_Witness ==
    /\ Found
    /\ dj.pq = {}
    /\ dj.visited = StationIds
    /\ Len(FoundPath) = NStations

====
